---- MODULE Spec2Model ----
(***************************************************************************)
(* Model of src/main.py: the FastAPI handler scrape, the asynchronous      *)
(* crawl scrape_mubawab_list_page (fetch_page tasks gathered over one      *)
(* httpx.AsyncClient with a bounded connection pool) and parse_listings.   *)
(*                                                                         *)
(* Text is a sequence of elements: a page body is the sequence of its      *)
(* markup elements (the empty body "" is << >>), an href is the sequence   *)
(* of its tokens.  An Optional value is << >> (None) or <<v>>.             *)
(* price_per_sqm is kept in hundredths (round(x, 2) * 100).                *)
(***************************************************************************)
EXTENDS Integers, Sequences, FiniteSets, TLC

(* ------------------------------ bounds -------------------------------- *)

\* Pages of the site whose outcome is chosen freely; a page past it answers
\* with a non-200 status (the listing has ended).
MaxSitePages == 3

\* Largest page count requested in the specifications that explore every
\* site (above CONCURRENCY, so the pool limit is reached).
MaxRequested == 6

\* Elements of the page handed to parse_listings on its own.
MaxElems == 1

(* ------------------------- program constants -------------------------- *)

MAX_PAGES == 200

CONCURRENCY == 5

\* A pool that never makes a task wait (no limits handed to the client).
UnlimitedConnections == MAX_PAGES

\* limits = httpx.Limits(max_connections=CONCURRENCY)
max_connections == CONCURRENCY

(* ---------------------------- Python values --------------------------- *)

None == << >>

Some(v) == <<v>>

\* Truthiness of an Optional[float]: None and 0.0 are falsy.
TruthyNum(o) == o # None /\ o[1] # 0

\* Truthiness of a str or list: empty is falsy.
TruthySeq(s) == Len(s) > 0

Max(a, b) == IF a >= b THEN a ELSE b

Min(a, b) == IF a <= b THEN a ELSE b

\* round(price / area, 2) in hundredths, ties to even as Python's round.
Round2(price, area) ==
    LET n == price * 100
        q == n \div area
        r == n % area
    IN  IF 2 * r < area THEN q
        ELSE IF 2 * r > area THEN q + 1
        ELSE IF q % 2 = 0 THEN q ELSE q + 1

(* ------------------------------- inputs ------------------------------- *)

MubawabUrl == "https://www.mubawab.ma/en/ct/casablanca/offices-for-rent"

OtherUrl == "https://www.example.com/listings"

\* "mubawab.ma" in input.url
IsMubawab(url) == url = MubawabUrl

Urls == {MubawabUrl, OtherUrl}

\* What one page of the site answers: a transport error (client.get raises),
\* a non-200 status, 200 with an empty body, 200 with markup and no card,
\* 200 with two cards.
Kinds == {"error", "status", "empty", "nocards", "cards"}

HeadPages == 1 .. MaxSitePages

Sites == [HeadPages -> Kinds]

\* Sites with a single page of listings.
SinglePageSites == {s \in Sites : \A p \in HeadPages : p > 1 => s[p] = "status"}

KindOf(s, p) == IF p \in HeadPages THEN s[p] ELSE "status"

Schemes == {"https:", "http:"}

Origin == <<"https:", "//www.mubawab.ma">>

Markup == [cls |-> "markup", title |-> <<0, 0>>, price |-> None, area |-> None,
           anchor |-> FALSE, href |-> << >>]

\* Card i of page p: its title names the listing.
SiteCard(p, i) == [cls |-> "listingBox", title |-> <<p, i>>, price |-> Some(100),
                   area |-> Some(8), anchor |-> TRUE, href |-> <<"/", "seg">>]

\* resp.text of page p when the status is 200.
SiteBody(kind, p) ==
    CASE kind = "empty" -> << >>
      [] kind = "nocards" -> <<Markup>>
      [] OTHER -> <<Markup, SiteCard(p, 1), SiteCard(p, 2)>>

\* Cards handed to parse_listings on its own: what parse_price and
\* parse_area make of the card's text, and the first anchor's href.
Prices == {None, Some(0), Some(100)}

Areas == {None, Some(0), Some(3), Some(8)}

Hrefs == {<< >>, <<"https:", "//host", "/", "seg">>, <<"/", "seg">>,
          <<"seg", "/", "seg">>}

Classes == {"listingBox", "contentBox", "markup"}

Elements ==
    {[cls |-> c, title |-> <<0, 0>>, price |-> pr, area |-> ar,
      anchor |-> an, href |-> h] :
        c \in Classes, pr \in Prices, ar \in Areas, an \in {TRUE},
        h \in Hrefs}
    \cup
    {[cls |-> c, title |-> <<0, 0>>, price |-> pr, area |-> ar,
      anchor |-> FALSE, href |-> << >>] :
        c \in Classes, pr \in Prices, ar \in Areas}

RECURSIVE SeqsUpTo(_, _)
SeqsUpTo(S, n) ==
    IF n = 0 THEN {<< >>}
    ELSE LET shorter == SeqsUpTo(S, n - 1)
         IN  shorter \cup {Append(s, e) : s \in {t \in shorter : Len(t) = n - 1}, e \in S}

HtmlInputs == SeqsUpTo(Elements, MaxElems)

(* --------------------------- parse_listings --------------------------- *)

\* soup.select("div.listingBox"), else the fallback selectors.
SelectCards(html) ==
    LET primary == SelectSeq(html, LAMBDA e : e.cls = "listingBox")
    IN  IF TruthySeq(primary) THEN primary
        ELSE SelectSeq(html, LAMBDA e : e.cls \in {"adlist", "contentBox", "box"})

\* link = a_best.get("href"); a leading "/" gets the site's origin.
LinkOf(box) ==
    LET link == IF box.anchor THEN Some(box.href) ELSE None
    IN  IF link # None /\ TruthySeq(link[1]) /\ link[1][1] = "/"
        THEN Some(Origin \o link[1])
        ELSE link

\* if price and area_val and area_val > 0: ppsqm = round(price / area_val, 2)
PricePerSqm(price, area) ==
    IF TruthyNum(price) /\ TruthyNum(area) /\ area[1] > 0
    THEN Some(Round2(price[1], area[1]))
    ELSE None

\* The record appended for one card; day is date.today().
ParseCard(box, day) ==
    LET link == LinkOf(box)
    IN  [title |-> box.title,
         price |-> box.price,
         area |-> box.area,
         link |-> IF link # None /\ TruthySeq(link[1]) THEN link[1] ELSE << >>,
         retrieved_at |-> day,
         price_per_sqm |-> PricePerSqm(box.price, box.area),
         city |-> ""]

parse_listings(html, day) ==
    LET cards == SelectCards(html)
    IN  [k \in 1 .. Len(cards) |-> ParseCard(cards[k], day)]

(* ------------------------------ fetch_page ---------------------------- *)

NoneResp == [kind |-> "None", text |-> << >>]

StrResp(t) == [kind |-> "str", text |-> t]

ExcResp == [kind |-> "Exception", text |-> << >>]

Pending == [kind |-> "pending", text |-> << >>]

\* url = base_url if page == 1 else f"{base_url}:p:{page}"
PageUrl(base, p) == IF p = 1 THEN <<base>> ELSE <<base, ":p:", p>>

\* The page of the site a URL addresses.
PageOfUrl(u) == IF Len(u) = 1 THEN 1 ELSE u[3]

\* fetch_page without its except clause: the error leaves the coroutine.
fetch_page_uncaught(kind, p) ==
    CASE kind = "error" -> ExcResp
      [] kind = "status" -> NoneResp
      [] OTHER -> StrResp(SiteBody(kind, p))

\* What fetch_page returns for the page: resp.text on 200, None on another
\* status, None when client.get raises.
fetch_page(kind, p) ==
    CASE kind = "error" -> NoneResp
      [] kind = "status" -> NoneResp
      [] OTHER -> StrResp(SiteBody(kind, p))

\* isinstance(resp, Exception) or not resp
Falsy(resp) ==
    \/ resp.kind = "Exception"
    \/ resp.kind = "None"
    \/ resp.kind = "str" /\ ~TruthySeq(resp.text)

(* ------------------------------- state -------------------------------- *)

VARIABLES
    input,          \* ScrapeInput: url, pages, city
    site,           \* what each page of the site answers
    today,          \* date.today()
    pc,             \* where the handler is
    pages,          \* the clamped page count
    page,           \* loop variable of the task-creating loop
    task,           \* state of the fetch_page task of each head page
    tailWaiting,    \* tasks of pages past MaxSitePages, created or waiting
    tailInflight,   \* ... holding a connection
    tailDone,       \* ... resolved
    responses,      \* gather's result list (head slots)
    completed,      \* head pages in the order their fetches resolved
    i,              \* loop variable of the result loop
    results,        \* results of scrape_mubawab_list_page
    data,           \* what scrape returns
    outcome,        \* how scrape ended
    run,            \* 1, or 2 in the second crawl of the same site
    prev,           \* the first crawl's data, first resolved page, date
    html,           \* argument of parse_listings run on its own
    cards,          \* its selected cards
    parsed,         \* its results list
    ppc             \* where it is

crawlVars == <<pc, pages, page, task, tailWaiting, tailInflight, tailDone,
               responses, completed, i, results, data, outcome>>

parseVars == <<html, cards, parsed, ppc>>

vars == <<input, site, today, run, prev, crawlVars, parseVars>>

NoTasks == [p \in HeadPages |-> "none"]

NoResponses == [p \in HeadPages |-> Pending]

NoRun == [data |-> << >>, first |-> 0, day |-> 0, done |-> FALSE]

\* The head page whose fetch resolved first (0: none has).
FirstResolved(order) == IF Len(order) > 0 THEN order[1] ELSE 0

CrawlReset ==
    /\ pages = 0
    /\ page = 0
    /\ task = NoTasks
    /\ tailWaiting = 0
    /\ tailInflight = 0
    /\ tailDone = 0
    /\ responses = NoResponses
    /\ completed = << >>
    /\ i = 0
    /\ results = << >>
    /\ data = << >>
    /\ outcome = "none"

ParseIdle == html = << >> /\ cards = << >> /\ parsed = << >> /\ ppc = "idle"

InitWith(requests, sites) ==
    /\ input \in [url : Urls, pages : requests, city : {"Casablanca"}]
    /\ site \in sites
    /\ today = 0
    /\ run = 1
    /\ prev = NoRun
    /\ pc = "start"
    /\ CrawlReset
    /\ ParseIdle

Init == InitWith(-1 .. MaxRequested, Sites)

(* ---------------------- scrape_mubawab_list_page ---------------------- *)

\* pages = min(pages, MAX_PAGES), the lower clamp forgotten.
ClampNoFloor(n) == Min(n, MAX_PAGES)

\* pages = max(1, min(pages, MAX_PAGES))
Clamp(n) == Max(1, Min(n, MAX_PAGES))

InFlight == Cardinality({p \in HeadPages : task[p] = "inflight"}) + tailInflight

Resolved == Len(completed) + tailDone

AllResolved ==
    /\ \A p \in HeadPages : task[p] \in {"none", "done"}
    /\ tailWaiting = 0
    /\ tailInflight = 0

\* A list filled in the order the fetches resolve (as_completed).
GatherSlotByCompletion(p, rank) == rank

\* asyncio.gather returns the results in the order of its awaitables.
GatherSlot(p, rank) == p

\* Slots of pages past MaxSitePages are not kept: they hold None.
Store(resps, slot, r) ==
    IF slot \in DOMAIN resps THEN [resps EXCEPT ![slot] = r] ELSE resps

ResponseAt(k) == IF k \in DOMAIN responses THEN responses[k] ELSE NoneResp

\* results = listings + results
ExtendFront(res, listings) == listings \o res

\* results.extend(listings)
Extend(res, listings) == res \o listings

\* scrape: the URL names no supported site.
ScrapeUnsupported ==
    /\ pc = "start"
    /\ ~IsMubawab(input.url)
    /\ outcome' = "HTTPException"
    /\ pc' = "done"
    /\ UNCHANGED <<input, site, today, run, prev, pages, page, task, tailWaiting,
                   tailInflight, tailDone, responses, completed, i, results,
                   data, parseVars>>

\* scrape calls scrape_mubawab_list_page, which clamps pages.
ScrapeCall ==
    /\ pc = "start"
    /\ IsMubawab(input.url)
    /\ pages' = Clamp(input.pages)
    /\ page' = 1
    /\ pc' = "issue"
    /\ UNCHANGED <<input, site, today, run, prev, task, tailWaiting, tailInflight,
                   tailDone, responses, completed, i, results, data, outcome,
                   parseVars>>

\* tasks.append(fetch_page(client, url))
AppendTask ==
    /\ pc = "issue"
    /\ page <= pages
    /\ IF page \in HeadPages
       THEN task' = [task EXCEPT ![page] = "created"] /\ UNCHANGED tailWaiting
       ELSE tailWaiting' = tailWaiting + 1 /\ UNCHANGED task
    /\ page' = page + 1
    /\ UNCHANGED <<input, site, today, run, prev, pc, pages, tailInflight, tailDone,
                   responses, completed, i, results, data, outcome, parseVars>>

\* asyncio.gather(*tasks, return_exceptions=True): every task starts and
\* waits in client.get for a connection of the pool.
Gather ==
    /\ pc = "issue"
    /\ page > pages
    /\ task' = [p \in HeadPages |-> IF task[p] = "created" THEN "waiting" ELSE task[p]]
    /\ pc' = "gather"
    /\ UNCHANGED <<input, site, today, run, prev, pages, page, tailWaiting,
                   tailInflight, tailDone, responses, completed, i, results,
                   data, outcome, parseVars>>

\* The pool hands a connection to the task of head page p.
AcquireConn(p) ==
    /\ pc = "gather"
    /\ task[p] = "waiting"
    /\ InFlight < max_connections
    /\ task' = [task EXCEPT ![p] = "inflight"]
    /\ UNCHANGED <<input, site, today, run, prev, pc, pages, page, tailWaiting,
                   tailInflight, tailDone, responses, completed, i, results,
                   data, outcome, parseVars>>

AcquireConnTail ==
    /\ pc = "gather"
    /\ tailWaiting > 0
    /\ InFlight < max_connections
    /\ tailWaiting' = tailWaiting - 1
    /\ tailInflight' = tailInflight + 1
    /\ UNCHANGED <<input, site, today, run, prev, pc, pages, page, task, tailDone,
                   responses, completed, i, results, data, outcome, parseVars>>

\* The fetch of head page p resolves: with its connection, or, for a
\* transport error, also while waiting for one (timeout=15.0 covers the pool).
ResolveFetch(p) ==
    /\ pc = "gather"
    /\ \/ task[p] = "inflight"
       \/ task[p] = "waiting" /\ KindOf(site, PageOfUrl(PageUrl(input.url, p))) = "error"
    /\ task' = [task EXCEPT ![p] = "done"]
    /\ responses' = Store(responses, GatherSlot(p, Resolved + 1),
                          fetch_page(KindOf(site, PageOfUrl(PageUrl(input.url, p))), p))
    /\ completed' = Append(completed, p)
    /\ UNCHANGED <<input, site, today, run, prev, pc, pages, page, tailWaiting,
                   tailInflight, tailDone, i, results, data, outcome, parseVars>>

\* The fetch of a page past MaxSitePages resolves (non-200, so None).
ResolveFetchTail ==
    /\ pc = "gather"
    /\ tailInflight > 0
    /\ tailInflight' = tailInflight - 1
    /\ tailDone' = tailDone + 1
    /\ responses' = Store(responses, GatherSlot(MaxSitePages + tailDone + 1, Resolved + 1),
                          fetch_page(KindOf(site, MaxSitePages + tailDone + 1),
                                     MaxSitePages + tailDone + 1))
    /\ UNCHANGED <<input, site, today, run, prev, pc, pages, page, task, tailWaiting,
                   completed, i, results, data, outcome, parseVars>>

\* gather returns once every task has resolved; the client is closed.
GatherReturn ==
    /\ pc = "gather"
    /\ AllResolved
    /\ pc' = "loop"
    /\ i' = 1
    /\ UNCHANGED <<input, site, today, run, prev, pages, page, task, tailWaiting,
                   tailInflight, tailDone, responses, completed, results, data,
                   outcome, parseVars>>

\* if isinstance(resp, Exception) or not resp: continue
LoopSkip ==
    /\ pc = "loop"
    /\ i <= pages
    /\ Falsy(ResponseAt(i))
    /\ i' = i + 1
    /\ UNCHANGED <<input, site, today, run, prev, pc, pages, page, task, tailWaiting,
                   tailInflight, tailDone, responses, completed, results, data,
                   outcome, parseVars>>

\* if not listings: break
LoopBreak ==
    /\ pc = "loop"
    /\ i <= pages
    /\ ~Falsy(ResponseAt(i))
    /\ ~TruthySeq(parse_listings(ResponseAt(i).text, today))
    /\ pc' = "return"
    /\ UNCHANGED <<input, site, today, run, prev, pages, page, task, tailWaiting,
                   tailInflight, tailDone, responses, completed, i, results, data,
                   outcome, parseVars>>

\* results.extend(listings)
LoopExtend ==
    /\ pc = "loop"
    /\ i <= pages
    /\ ~Falsy(ResponseAt(i))
    /\ TruthySeq(parse_listings(ResponseAt(i).text, today))
    /\ results' = Extend(results, parse_listings(ResponseAt(i).text, today))
    /\ i' = i + 1
    /\ UNCHANGED <<input, site, today, run, prev, pc, pages, page, task, tailWaiting,
                   tailInflight, tailDone, responses, completed, data, outcome,
                   parseVars>>

\* The for loop is exhausted.
LoopEnd ==
    /\ pc = "loop"
    /\ i > pages
    /\ pc' = "return"
    /\ UNCHANGED <<input, site, today, run, prev, pages, page, task, tailWaiting,
                   tailInflight, tailDone, responses, completed, i, results, data,
                   outcome, parseVars>>

\* item["city"] = input.city, ...
AttachMetadata(item) == [item EXCEPT !.city = input.city]

\* return results; scrape attaches the metadata and returns data.
ScrapeReturn ==
    /\ pc = "return"
    /\ data' = [k \in 1 .. Len(results) |-> AttachMetadata(results[k])]
    /\ outcome' = "ok"
    /\ pc' = "done"
    /\ UNCHANGED <<input, site, today, run, prev, pages, page, task, tailWaiting,
                   tailInflight, tailDone, responses, completed, i, results,
                   parseVars>>

Next ==
    \/ ScrapeUnsupported
    \/ ScrapeCall
    \/ AppendTask
    \/ Gather
    \/ \E p \in HeadPages : AcquireConn(p)
    \/ AcquireConnTail
    \/ \E p \in HeadPages : ResolveFetch(p)
    \/ ResolveFetchTail
    \/ GatherReturn
    \/ LoopSkip
    \/ LoopBreak
    \/ LoopExtend
    \/ LoopEnd
    \/ ScrapeReturn

Spec == Init /\ [][Next]_vars

(* --------------------- a second crawl of the same site ---------------- *)

\* scrape is called again with the same input; the site has not changed,
\* the date may have.
Rerun ==
    /\ pc = "done"
    /\ run = 1
    /\ run' = 2
    /\ prev' = [data |-> data, first |-> FirstResolved(completed), day |-> today,
                done |-> TRUE]
    /\ today' \in {today, today + 1}
    /\ pc' = "start"
    /\ pages' = 0
    /\ page' = 0
    /\ task' = NoTasks
    /\ tailWaiting' = 0
    /\ tailInflight' = 0
    /\ tailDone' = 0
    /\ responses' = NoResponses
    /\ completed' = << >>
    /\ i' = 0
    /\ results' = << >>
    /\ data' = << >>
    /\ outcome' = "none"
    /\ UNCHANGED <<input, site, parseVars>>

NextTwice == Next \/ Rerun

InitTwice == InitWith(-1 .. MaxSitePages + 1, Sites)

SpecTwice == InitTwice /\ [][NextTwice]_vars

(* ------------------- requests up to the default 9999 ------------------ *)

InitClamp == InitWith({-1, 0, 1, 2, MAX_PAGES + 1, 9999}, SinglePageSites)

SpecClamp == InitClamp /\ [][Next]_vars

(* ---------------------- parse_listings on its own --------------------- *)

InitParse ==
    /\ input = [url |-> MubawabUrl, pages |-> 1, city |-> "Casablanca"]
    /\ site = [p \in HeadPages |-> "status"]
    /\ today = 0
    /\ run = 1
    /\ prev = NoRun
    /\ pc = "idle"
    /\ CrawlReset
    /\ html \in HtmlInputs
    /\ cards = << >>
    /\ parsed = << >>
    /\ ppc = "select"

\* cards = soup.select(...); results = []
ParseSelect ==
    /\ ppc = "select"
    /\ cards' = SelectCards(html)
    /\ parsed' = << >>
    /\ ppc' = "loop"
    /\ UNCHANGED <<input, site, today, run, prev, crawlVars, html>>

\* One pass of for box in cards: results.append({...})
ParseBox ==
    /\ ppc = "loop"
    /\ Len(parsed) < Len(cards)
    /\ parsed' = Append(parsed, ParseCard(cards[Len(parsed) + 1], today))
    /\ UNCHANGED <<input, site, today, run, prev, crawlVars, html, cards, ppc>>

\* return results
ParseReturn ==
    /\ ppc = "loop"
    /\ Len(parsed) = Len(cards)
    /\ ppc' = "returned"
    /\ UNCHANGED <<input, site, today, run, prev, crawlVars, html, cards, parsed>>

NextParse == ParseSelect \/ ParseBox \/ ParseReturn

SpecParse == InitParse /\ [][NextParse]_vars

\* The loop and the operator the crawl uses are the same function.
ParseLoopIsParseListings ==
    ppc = "returned" => parsed = parse_listings(html, today)

(* ------------------------------ properties ---------------------------- *)

TypeOK ==
    /\ pc \in {"idle", "start", "issue", "gather", "loop", "return", "done"}
    /\ pages \in 0 .. MAX_PAGES
    /\ task \in [HeadPages -> {"none", "created", "waiting", "inflight", "done"}]
    /\ tailWaiting \in 0 .. MAX_PAGES
    /\ tailInflight \in 0 .. MAX_PAGES
    /\ tailDone \in 0 .. MAX_PAGES
    /\ outcome \in {"none", "ok", "HTTPException"}
    /\ run \in {1, 2}

\* The page a record comes from, and its place on that page: the listing's
\* title, which the site makes <<page, place>>.
PageOf(r) == r.title[1]

PlaceOf(r) == r.title[2]

\* The page answered 200.
Fetched200(k) == KindOf(site, k) \in {"empty", "nocards", "cards"}

\* The page answered 200 and its body holds no card.
ZeroCards(k) ==
    /\ Fetched200(k)
    /\ Len(SelectCards(SiteBody(KindOf(site, k), k))) = 0

\* The fetch of the page failed: a non-200 status or a transport error.
FetchFailed(k) == KindOf(site, k) \in {"status", "error"}

Returned == pc = "done" /\ outcome = "ok"

TasksCreated ==
    Cardinality({p \in HeadPages : task[p] # "none"})
        + tailWaiting + tailInflight + tailDone

PendingTasks == {p \in HeadPages : task[p] \in {"waiting", "inflight"}}

\* Position of head page p in the completion order (0: not resolved).
Rank(order, p) ==
    IF \E k \in 1 .. Len(order) : order[k] = p
    THEN CHOOSE k \in 1 .. Len(order) : order[k] = p
    ELSE 0

StripDate(d) == [k \in 1 .. Len(d) |-> [d[k] EXCEPT !.retrieved_at = 0]]

\* C1: if page k is the lowest page that answers 200 and parses to zero
\* cards, every returned record comes from a page below k.
C1_StopAtFirstZeroCardPage ==
    Returned =>
        \A k \in 1 .. pages :
            (ZeroCards(k) /\ \A j \in 1 .. k - 1 : ~ZeroCards(j))
                => \A n \in 1 .. Len(data) : PageOf(data[n]) < k

\* What the code does keep of C1: the crawl stops at the lowest page whose
\* body is not empty and holds no card.
StopAtFirstParsedEmptyPage ==
    Returned =>
        \A k \in 1 .. pages :
            KindOf(site, k) = "nocards"
                => \A n \in 1 .. Len(data) : PageOf(data[n]) < k

\* C2: if the fetch of page k fails (non-200 or transport error), no
\* returned record comes from a page above k.
C2_FailedFetchStops ==
    Returned =>
        \A k \in 1 .. pages :
            FetchFailed(k) => \A n \in 1 .. Len(data) : PageOf(data[n]) <= k

\* C3: the records are in ascending page order, and on one page in the
\* order parse_listings gave them, whatever order the fetches resolved in.
C3_PageThenDocumentOrder ==
    /\ \A a, b \in 1 .. Len(results) :
          a < b => \/ PageOf(results[a]) < PageOf(results[b])
                   \/ /\ PageOf(results[a]) = PageOf(results[b])
                      /\ PlaceOf(results[a]) < PlaceOf(results[b])
    /\ \A a, b \in 1 .. Len(data) :
          a < b => \/ PageOf(data[a]) < PageOf(data[b])
                   \/ /\ PageOf(data[a]) = PageOf(data[b])
                      /\ PlaceOf(data[a]) < PlaceOf(data[b])

\* Records of two pages are returned although the later page resolved first.
C3_Witness ==
    /\ Returned
    /\ \E a, b \in 1 .. Len(data) :
          /\ PageOf(data[a]) < PageOf(data[b])
          /\ Rank(completed, PageOf(data[a])) > Rank(completed, PageOf(data[b]))

\* C4: a record has price_per_sqm exactly when it has a price, an area, and
\* the area is above 0.
C4_PricePerSqmIff ==
    \A n \in 1 .. Len(parsed) :
        (parsed[n].price_per_sqm # None)
            <=> (/\ parsed[n].price # None
                 /\ parsed[n].area # None
                 /\ parsed[n].area[1] > 0)

\* What the code does keep of C4: price_per_sqm is there only with a price
\* and an area above 0, and is then round(price / area, 2).
PricePerSqmOnlyIf ==
    \A n \in 1 .. Len(parsed) :
        parsed[n].price_per_sqm # None
            => /\ parsed[n].price # None
               /\ parsed[n].area # None
               /\ parsed[n].area[1] > 0
               /\ parsed[n].price_per_sqm[1]
                      = Round2(parsed[n].price[1], parsed[n].area[1])

\* C5: a crawl that ends with no record is not returned as an ordinary
\* result.
C5_NoListingsIsAnError ==
    (pc = "done" /\ IsMubawab(input.url) /\ Len(data) = 0) => outcome # "ok"

\* C6: the link of a record is empty or an absolute URL.
C6_LinkEmptyOrAbsolute ==
    \A n \in 1 .. Len(parsed) :
        \/ parsed[n].link = << >>
        \/ parsed[n].link[1] \in Schemes

\* C7: fetches are issued for the pages 1 .. max(1, min(pages, MAX_PAGES))
\* and no other: page 1 always, no page above MAX_PAGES.
C7_FetchesWithinClamp ==
    LET n == input.pages
        bound == IF n < 1 THEN 1 ELSE IF n > MAX_PAGES THEN MAX_PAGES ELSE n
    IN  /\ TasksCreated <= bound
        /\ TasksCreated <= MAX_PAGES
        /\ \A p \in HeadPages : task[p] # "none" => p <= bound
        /\ \A p, q \in HeadPages : (p < q /\ task[q] # "none") => task[p] # "none"
        /\ tailWaiting + tailInflight + tailDone > 0
              => \A p \in HeadPages : task[p] # "none"
        /\ (pc \in {"gather", "loop", "return"} \/ Returned)
              => (TasksCreated = bound /\ task[1] # "none")

\* A request above MAX_PAGES has been served with MAX_PAGES fetches.
C7_Witness ==
    /\ Returned
    /\ input.pages > MAX_PAGES
    /\ TasksCreated = MAX_PAGES

\* C8: a second crawl of the unchanged site returns the records of the
\* first, retrieved_at apart, however the fetches interleave in each.
C8_SecondCrawlSameRecords ==
    (run = 2 /\ pc = "done") => StripDate(data) = StripDate(prev.data)

\* Two crawls whose fetches resolved in different orders, on different days.
C8_Witness ==
    /\ run = 2
    /\ Returned
    /\ Len(data) >= 4
    /\ FirstResolved(completed) # prev.first
    /\ today # prev.day

\* Tasks that gather has started and that have not resolved: waiting in
\* client.get for a connection, or holding one.
Unresolved ==
    IF pc = "gather"
    THEN Cardinality(PendingTasks) + tailWaiting + tailInflight
    ELSE 0

\* C9 as stated: at most CONCURRENCY fetches are issued and not yet resolved.
C9_AtMostConcurrencyUnresolved == Unresolved <= CONCURRENCY

\* C9 as amended: at most CONCURRENCY fetches hold a connection of the
\* client's pool (have their request in flight) at any time.
C9_AtMostConcurrencyInFlight == InFlight <= CONCURRENCY

\* The pool is full while created tasks still wait for a connection.
C9_Witness ==
    /\ pages > CONCURRENCY
    /\ InFlight = CONCURRENCY
    /\ tailWaiting + Cardinality({p \in HeadPages : task[p] = "waiting"}) > 0

\* C10: a transport failure makes fetch_page return None for that page
\* only; the other fetches stay able to resolve, gather returns with every
\* task resolved, and the handler goes on to return a list.
C10_TransportFailureIsolated ==
    /\ \A p \in HeadPages :
          (task[p] = "done" /\ KindOf(site, p) = "error") => responses[p] = NoneResp
    /\ \A q \in PendingTasks :
          \/ ENABLED ResolveFetch(q)
          \/ ENABLED AcquireConn(q)
          \/ InFlight = max_connections /\ (\E p \in HeadPages : ENABLED ResolveFetch(p))
          \/ InFlight = max_connections /\ ENABLED ResolveFetchTail
    /\ pc \in {"loop", "return"} => (AllResolved /\ Resolved = pages)
    /\ (pc # "done" /\ pc # "idle") => ENABLED Next
    /\ (pc = "done" /\ IsMubawab(input.url)) => outcome = "ok"

\* A page failed in transport first, a sibling resolved after it and its
\* records are returned.
C10_Witness ==
    /\ Returned
    /\ \E p, q \in HeadPages :
          /\ KindOf(site, p) = "error"
          /\ Rank(completed, p) > 0
          /\ Rank(completed, p) < Rank(completed, q)
          /\ \E n \in 1 .. Len(data) : PageOf(data[n]) = q

====
